---- MODULE Spec2Model ----
(***************************************************************************)
(* State-machine model of Minecrft_Screensaver.py: the start-up sequence   *)
(* of main() (hide cursor, grab input, build clouds), the frame loop       *)
(* (clock tick, event poll, particle spawn/age/filter, cloud drift and     *)
(* wraparound, particle alpha), the finally block that restores the        *)
(* cursor, and the top-level crash handler.                                *)
(*                                                                         *)
(* Arithmetic is fixed point: times are in milliseconds, positions in      *)
(* thousandths of a pixel, so that  y += vy * dt  (px/s * ms) is exact.     *)
(***************************************************************************)
EXTENDS Integers, Sequences, FiniteSets, TLC

VARIABLES pc, mouse_visible, grabbed, running, start_mouse_pos, events, dt,
          spawn_accum, spawn_interval, falling, clouds, alphas, frames,
          spawned, exc, fault, restore_fault, reported, exit_code

vars == <<pc, mouse_visible, grabbed, running, start_mouse_pos, events, dt,
          spawn_accum, spawn_interval, falling, clouds, alphas, frames,
          spawned, exc, fault, restore_fault, reported, exit_code>>

loopVars == <<running, events, dt, spawn_accum, spawn_interval, falling,
              clouds, alphas, frames, spawned>>

----------------------------------------------------------------------------
(* Configuration block of the program (times in ms).                       *)
FPS == 60
BLOCK_FALL_RATE == <<150, 400>>
BLOCK_SPAWN_RATE == 80
CLOUD_SPEED == 10
CLOUD_COUNT == 5
MinSpawnInterval == 20
FallMargin == 200
BaseLife == 2500
LifeSpread == 2000
MaxBlockWidth == 450
MinPixelSize == 2

(* Fixed-point scale: ms per second, and position units per pixel.         *)
Scale == 1000

(* The display the program finds (info.current_w, info.current_h).         *)
screen_w == 720
screen_h == 480

(* Bounds of the exploration.                                              *)
MaxFrames == 3
MaxBatch == 2
LagDt == 4400

Min(a, b) == IF a <= b THEN a ELSE b
Max(a, b) == IF a >= b THEN a ELSE b

(* int(): truncation toward zero of the quotient a / b, b > 0.             *)
TruncDiv(a, b) == IF a >= 0 THEN a \div b ELSE -((-a) \div b)

(* Python round(): the quotient a / b (b > 0) rounded to the nearest       *)
(* integer, ties to even.                                                  *)
RoundDiv(a, b) ==
    LET q == a \div b
        r == a - q * b
    IN  IF 2 * r < b THEN q
        ELSE IF 2 * r > b THEN q + 1
        ELSE IF q % 2 = 0 THEN q ELSE q + 1

----------------------------------------------------------------------------
(* Pixel-art scaling, lines 106-110.                                       *)
map_w == 11
target_block_width == Min(screen_w \div 5, MaxBlockWidth)
pixel_size == Max(MinPixelSize, target_block_width \div map_w)

----------------------------------------------------------------------------
(* Inputs of the environment, drawn from small sets.                       *)

(* clock.tick(FPS) returns the milliseconds since the previous tick and    *)
(* waits until at least 1000 // FPS of them have passed; a stalled frame   *)
(* returns more.                                                           *)
MinDt == Scale \div FPS
DtSet == {MinDt, LagDt}

NoPos == <<>>
Positions == {<<3, 4>>, <<3, 5>>}

EventSet ==
    {[type |-> t, pos |-> NoPos] : t \in {"QUIT", "KEYDOWN", "MOUSEBUTTONDOWN"}}
        \cup {[type |-> "MOUSEMOTION", pos |-> p] : p \in Positions}

EventBatches == UNION {[1..n -> EventSet] : n \in 0..MaxBatch}
SingleBatches == {<<>>} \cup {<<e>> : e \in EventSet}

(* random.gauss(BLOCK_SPAWN_RATE, BLOCK_SPAWN_RATE * 0.4): a value below   *)
(* the floor, and the mean.                                                *)
GaussDraws == {MinSpawnInterval \div 2, BLOCK_SPAWN_RATE}
SizeDraws == {1}
SpeedDraws == {BLOCK_FALL_RATE[1], BLOCK_FALL_RATE[2] - 1}
ColorDraws == {"STONE"}
(* 2.5 + random.random() * 2.0 lies in [2.5, 4.5): a lifetime that a       *)
(* stalled frame followed by a capped one uses up exactly, and the longest *)
(* one.                                                                    *)
LifeDraws == {LagDt + MinDt, BaseLife + LifeSpread - 1}

SpawnDraws ==
    [gauss : GaussDraws, size : SizeDraws, x : {0}, yoff : {0},
     speed : SpeedDraws, color : ColorDraws, life : LifeDraws]

(* Clouds: width from randint(screen_w // 6, screen_w // 3), speed from    *)
(* uniform(CLOUD_SPEED * 0.5, CLOUD_SPEED * 1.5), x from                   *)
(* uniform(-w, screen_w).  The x drawn near the right edge is the one from *)
(* which two stalled frames land exactly on the wrap threshold.            *)
CloudW == screen_w \div 6
CloudFast == (CLOUD_SPEED * 3) \div 2 - 1
CloudTop == 20 * Scale
NearEdgeX == Min((screen_w + CloudW) * Scale - 2 * CloudFast * LagDt,
                 screen_w * Scale - 1)
CloudXDraws == {NearEdgeX}
CloudDraws ==
    [x : CloudXDraws, y : {CloudTop}, w : {CloudW}, speed : {CloudFast}]

(* The re-entry draws of a wrapped cloud, lines 172-174.                   *)
CloudReDraws == [off : {Scale}, y : {CloudTop}, speed : {CLOUD_SPEED \div 2}]

----------------------------------------------------------------------------
(* Variants of the event handler: one that assigns the comparison to       *)
(* running, one that compares the x coordinate only.                       *)
HandleEventAssign(run, e) ==
    IF e.type = "QUIT" THEN FALSE
    ELSE IF e.type \in {"KEYDOWN", "MOUSEBUTTONDOWN"} THEN FALSE
    ELSE IF e.type = "MOUSEMOTION" THEN e.pos = start_mouse_pos
    ELSE run

HandleEventXOnly(run, e) ==
    IF e.type = "QUIT" THEN FALSE
    ELSE IF e.type \in {"KEYDOWN", "MOUSEBUTTONDOWN"} THEN FALSE
    ELSE IF e.type = "MOUSEMOTION"
         THEN (IF e.pos[1] # start_mouse_pos[1] THEN FALSE ELSE run)
    ELSE run

(* Event handling, lines 142-150.                                          *)
HandleEvent(run, e) ==
    IF e.type = "QUIT" THEN FALSE
    ELSE IF e.type \in {"KEYDOWN", "MOUSEBUTTONDOWN"} THEN FALSE
    ELSE IF e.type = "MOUSEMOTION"
         THEN (IF e.pos # start_mouse_pos THEN FALSE ELSE run)
    ELSE run

RECURSIVE HandleEvents(_, _)
HandleEvents(run, evs) ==
    IF evs = <<>> THEN run
    ELSE HandleEvents(HandleEvent(run, Head(evs)), Tail(evs))

(* Spawn decision and the re-randomized interval, lines 152-154.           *)
ShouldSpawn(acc, interval) == acc >= interval
(* Variant without the floor.                                              *)
NextIntervalNoFloor(g) == g
NextInterval(g) == Max(MinSpawnInterval, g)

(* A new FallingBlock, lines 155-162.  id is the spawn sequence number,    *)
(* standing for the identity of the Python object.                         *)
NewBlock(id, s) ==
    LET px_size == pixel_size * s.size
    IN  [id |-> id, x |-> s.x, y |-> -(px_size * Scale) - s.yoff,
         size |-> px_size, vy |-> s.speed, color |-> s.color,
         life |-> s.life, max_life |-> s.life]

(* Variants: a block that rises, a filter that keeps a lifetime of zero.   *)
UpdateBlockRising(b, d) == [b EXCEPT !.y = b.y - b.vy * d, !.life = b.life - d]
KeepBlockZero(b) == b.life >= 0 /\ b.y < (screen_h + FallMargin) * Scale

(* Lines 164-167.                                                          *)
UpdateBlock(b, d) == [b EXCEPT !.y = b.y + b.vy * d, !.life = b.life - d]
KeepBlock(b) == b.life > 0 /\ b.y < (screen_h + FallMargin) * Scale

(* Variant that also wraps a cloud standing exactly on the threshold.      *)
UpdateCloudAtEdge(c, d, r) ==
    LET nx == c.x + c.speed * d
    IN  IF nx >= (screen_w + c.w) * Scale
        THEN [c EXCEPT !.x = -(c.w * Scale) - r.off, !.y = r.y, !.speed = r.speed]
        ELSE [c EXCEPT !.x = nx]

(* Lines 169-174.                                                          *)
UpdateCloud(c, d, r) ==
    LET nx == c.x + c.speed * d
    IN  IF nx > (screen_w + c.w) * Scale
        THEN [c EXCEPT !.x = -(c.w * Scale) - r.off, !.y = r.y, !.speed = r.speed]
        ELSE [c EXCEPT !.x = nx]

(* Variant that rounds to the nearest integer.                             *)
AlphaRounded(b) == Max(0, Min(255, RoundDiv(255 * b.life, b.max_life)))

(* Line 186.                                                               *)
Alpha(b) == Max(0, Min(255, TruncDiv(255 * b.life, b.max_life)))

----------------------------------------------------------------------------
(* The process before main() runs: the desktop shows its cursor and no     *)
(* input is grabbed.                                                       *)
Init ==
    /\ pc = "start"
    /\ mouse_visible = TRUE
    /\ grabbed = FALSE
    /\ running = FALSE
    /\ start_mouse_pos = NoPos
    /\ events = <<>>
    /\ dt = 0
    /\ spawn_accum = 0
    /\ spawn_interval = BLOCK_SPAWN_RATE
    /\ falling = <<>>
    /\ clouds = <<>>
    /\ alphas = <<>>
    /\ frames = 0
    /\ spawned = 0
    /\ exc = "none"
    /\ fault = "none"
    /\ restore_fault = "none"
    /\ reported = FALSE
    /\ exit_code = -1

(* Lines 88-98: display set-up, then pygame.mouse.set_visible(False).      *)
HideMouse ==
    /\ pc = "start"
    /\ mouse_visible' = FALSE
    /\ pc' = "grab"
    /\ UNCHANGED <<grabbed, start_mouse_pos, exc, fault, restore_fault,
                   reported, exit_code, loopVars>>

(* Lines 88-94 raise before the cursor is hidden.                          *)
DisplayFault ==
    /\ pc = "start"
    /\ exc' = "Exception"
    /\ fault' = "display"
    /\ pc' = "toplevel"
    /\ UNCHANGED <<mouse_visible, grabbed, start_mouse_pos, restore_fault,
                   reported, exit_code, loopVars>>

(* Lines 99-103: set_grab(True); a platform that refuses raises, and the   *)
(* exception is swallowed.                                                 *)
GrabInput ==
    /\ pc = "grab"
    /\ \E ok \in BOOLEAN : grabbed' = ok
    /\ pc' = "setup"
    /\ UNCHANGED <<mouse_visible, start_mouse_pos, exc, fault, restore_fault,
                   reported, exit_code, loopVars>>

(* Lines 105-136: sprites, particle state, clouds, start position,         *)
(* running = True.                                                         *)
Setup ==
    /\ pc = "setup"
    /\ falling' = <<>>
    /\ spawn_accum' = 0
    /\ spawn_interval' = BLOCK_SPAWN_RATE
    /\ \E cs \in [1..CLOUD_COUNT -> CloudDraws] : clouds' = cs
    /\ \E p \in Positions : start_mouse_pos' = p
    /\ running' = TRUE
    /\ pc' = "loop"
    /\ UNCHANGED <<mouse_visible, grabbed, events, dt, alphas, frames, spawned,
                   exc, fault, restore_fault, reported, exit_code>>

(* Lines 105-134 raise: the try block of line 137 is not entered yet, so   *)
(* the exception leaves main() without passing the finally block.          *)
SetupFault ==
    /\ pc = "setup"
    /\ exc' = "Exception"
    /\ fault' = "setup"
    /\ pc' = "toplevel"
    /\ UNCHANGED <<mouse_visible, grabbed, start_mouse_pos, restore_fault,
                   reported, exit_code, loopVars>>

(* One iteration of the while loop up to the end of the updates,           *)
(* lines 139-174: d is the tick, evs the polled batch, s the spawn draws,  *)
(* r the re-entry draws of the clouds.                                     *)
FrameUpdate(d, evs, s, r) ==
    LET acc == spawn_accum + d
        doSpawn == ShouldSpawn(acc, spawn_interval)
        pool == IF doSpawn THEN Append(falling, NewBlock(spawned + 1, s))
                ELSE falling
        moved == [i \in 1..Len(pool) |-> UpdateBlock(pool[i], d)]
    IN  /\ dt' = d
        /\ events' = evs
        /\ running' = HandleEvents(running, evs)
        /\ spawn_accum' = IF doSpawn THEN acc - spawn_interval ELSE acc
        /\ spawn_interval' = IF doSpawn THEN NextInterval(s.gauss)
                             ELSE spawn_interval
        /\ spawned' = IF doSpawn THEN spawned + 1 ELSE spawned
        /\ falling' = SelectSeq(moved, KeepBlock)
        /\ clouds' = [i \in 1..CLOUD_COUNT |-> UpdateCloud(clouds[i], d, r[i])]
        /\ frames' = frames + 1

(* A whole frame, lines 139-208: updates, then the particles are drawn     *)
(* with their alpha and the frame is presented.  Dts and Batches are the   *)
(* sets the tick and the polled batch are drawn from.                      *)
FrameOf(Dts, Batches) ==
    /\ pc = "loop"
    /\ running
    /\ frames < MaxFrames
    /\ \E d \in Dts, evs \in Batches, s \in SpawnDraws,
          r \in [1..CLOUD_COUNT -> CloudReDraws] :
            FrameUpdate(d, evs, s, r)
    /\ alphas' = [i \in 1..Len(falling') |-> Alpha(falling'[i])]
    /\ pc' = "loop"
    /\ UNCHANGED <<mouse_visible, grabbed, start_mouse_pos, exc, fault,
                   restore_fault, reported, exit_code>>

(* A frame that raises: in pygame.event.get(), after the tick was added to *)
(* the accumulator (line 140), or in a drawing call, after the updates.    *)
(* Control passes to the finally block.                                    *)
FrameFaultOf(Dts, Batches) ==
    /\ pc = "loop"
    /\ running
    /\ frames < MaxFrames
    /\ \/ /\ \E d \in Dts : dt' = d /\ spawn_accum' = spawn_accum + d
          /\ frames' = frames + 1
          /\ fault' = "poll"
          /\ UNCHANGED <<running, events, spawn_interval, falling, clouds,
                         spawned>>
       \/ /\ \E d \in Dts, evs \in Batches, s \in SpawnDraws,
                r \in [1..CLOUD_COUNT -> CloudReDraws] :
                  FrameUpdate(d, evs, s, r)
          /\ fault' = "render"
    /\ exc' = "Exception"
    /\ pc' = "finally"
    /\ UNCHANGED <<mouse_visible, grabbed, start_mouse_pos, alphas,
                   restore_fault, reported, exit_code>>

(* The frame loop with every tick and every spawn draw, polling at most    *)
(* one event per frame.                                                    *)
Frame == FrameOf(DtSet, SingleBatches)
FrameFault == FrameFaultOf(DtSet, SingleBatches)

(* The frame loop at the capped frame rate, polling every batch of up to   *)
(* MaxBatch events.                                                        *)
InputFrame == FrameOf({MinDt}, EventBatches)
InputFrameFault == FrameFaultOf({MinDt}, EventBatches)

(* Variant of the finally block that leaves out set_grab(False).           *)
RestoreKeepGrab ==
    /\ \/ pc = "loop" /\ ~running
       \/ pc = "finally"
    /\ \E rf \in {"none", "visible", "grab"} :
        /\ restore_fault' = rf
        /\ mouse_visible' = IF rf = "visible" THEN mouse_visible ELSE TRUE
        /\ grabbed' = grabbed
    /\ exc' = "SystemExit"
    /\ pc' = "toplevel"
    /\ UNCHANGED <<start_mouse_pos, fault, reported, exit_code, loopVars>>

(* Lines 210-218, entered when the while condition is false or when the    *)
(* loop body raised.  rf names the call of the inner try that raises, if   *)
(* any; sys.exit() then raises SystemExit, which replaces an exception in  *)
(* flight.                                                                 *)
Restore ==
    /\ \/ pc = "loop" /\ ~running
       \/ pc = "finally"
    /\ \E rf \in {"none", "visible", "grab"} :
        /\ restore_fault' = rf
        /\ mouse_visible' = IF rf = "visible" THEN mouse_visible ELSE TRUE
        /\ grabbed' = IF rf = "none" THEN FALSE ELSE grabbed
    /\ exc' = "SystemExit"
    /\ pc' = "toplevel"
    /\ UNCHANGED <<start_mouse_pos, fault, reported, exit_code, loopVars>>

(* Lines 221-227: except Exception catches an Exception, reports it and    *)
(* re-raises (exit status 1); SystemExit is no Exception and ends the      *)
(* process with status 0.                                                  *)
TopLevel ==
    /\ pc = "toplevel"
    /\ IF exc = "Exception"
       THEN reported' = TRUE /\ exit_code' = 1
       ELSE reported' = reported /\ exit_code' = 0
    /\ pc' = "terminated"
    /\ UNCHANGED <<mouse_visible, grabbed, start_mouse_pos, exc, fault,
                   restore_fault, loopVars>>

Next ==
    \/ HideMouse
    \/ DisplayFault
    \/ GrabInput
    \/ Setup
    \/ SetupFault
    \/ Frame
    \/ FrameFault
    \/ Restore
    \/ TopLevel

Spec == Init /\ [][Next]_vars

NextInput ==
    \/ HideMouse
    \/ DisplayFault
    \/ GrabInput
    \/ Setup
    \/ SetupFault
    \/ InputFrame
    \/ InputFrameFault
    \/ Restore
    \/ TopLevel

SpecInput == Init /\ [][NextInput]_vars

----------------------------------------------------------------------------
(* Vocabulary of the properties.                                           *)

(* An event that ends the loop, lines 143-150.                             *)
IsTrigger(e) ==
    \/ e.type \in {"QUIT", "KEYDOWN", "MOUSEBUTTONDOWN"}
    \/ e.type = "MOUSEMOTION" /\ e.pos # start_mouse_pos
HasTrigger(evs) == \E i \in 1..Len(evs) : IsTrigger(evs[i])
AtStart(e) == e.type = "MOUSEMOTION" /\ e.pos = start_mouse_pos

(* A step in which a frame polled its events and ran its updates.          *)
Polled == pc = "loop" /\ running /\ frames' = frames + 1 /\ fault' # "poll"

(* The loop has ended (EXITING) or was never entered.                      *)
LoopOver ==
    \/ pc \in {"finally", "toplevel", "terminated"}
    \/ pc = "loop" /\ ~running

Ids(bs) == {bs[i].id : i \in 1..Len(bs)}

----------------------------------------------------------------------------
(* C1: a frame whose polled batch holds a QUIT, a KEYDOWN, a               *)
(* MOUSEBUTTONDOWN or a MOUSEMOTION away from the start position leaves    *)
(* RUNNING, whatever follows it in the batch; once the loop is over it     *)
(* stays over, running is not set again and no further frame begins.       *)
C1_ExitIsTerminal ==
    [][ /\ (Polled /\ HasTrigger(events')) => (~running' /\ LoopOver')
        /\ LoopOver => (LoopOver' /\ frames' = frames /\ (~running => ~running'))
      ]_vars

C1_Witness ==
    /\ pc = "terminated"
    /\ fault = "none"
    /\ ~running
    /\ Len(events) = 2
    /\ IsTrigger(events[1])
    /\ AtStart(events[2])

(* C2: a MOUSEMOTION at the recorded start position does not end the loop  *)
(* (a batch of nothing else leaves it RUNNING); a MOUSEMOTION at any other *)
(* position ends it in the poll that reads it.                             *)
C2_MotionFromStart ==
    [][ Polled =>
          /\ (events' # <<>> /\ \A i \in 1..Len(events') : AtStart(events'[i]))
                => running'
          /\ (\E i \in 1..Len(events') :
                 events'[i].type = "MOUSEMOTION"
                    /\ events'[i].pos # start_mouse_pos)
                => ~running'
      ]_vars

C2_Witness ==
    /\ pc = "loop"
    /\ running
    /\ Len(events) = MaxBatch
    /\ \A i \in 1..Len(events) : AtStart(events[i])

(* C3: whenever the process terminates after the cursor was hidden, the    *)
(* cursor is visible and the input grab is released, whatever fault was    *)
(* raised after the hide.                                                  *)
C3_AlwaysRestored ==
    (pc = "terminated" /\ fault # "display") => (mouse_visible /\ ~grabbed)

(* C4: when the loop ends on an exit trigger and nothing raises, the       *)
(* finally block has shown the cursor and released the grab before the     *)
(* process terminates.                                                     *)
C4_NormalExitRestores ==
    (pc \in {"toplevel", "terminated"} /\ fault = "none" /\ restore_fault = "none")
        => (HasTrigger(events) /\ ~running /\ mouse_visible /\ ~grabbed)

C4_Witness ==
    /\ pc = "terminated"
    /\ fault = "none"
    /\ restore_fault = "none"
    /\ Len(events) = 1
    /\ events[1].type = "MOUSEMOTION"
    /\ mouse_visible
    /\ ~grabbed

(* C5: a frame lowers the lifetime of every particle it keeps by exactly   *)
(* its tick, the tick is positive, and a particle whose lifetime is not    *)
(* positive after the decrement is not in the list (so is not drawn).      *)
C5_LifetimeDecreases ==
    [][ Polled =>
          /\ dt' > 0
          /\ \A i \in 1..Len(falling) :
                /\ falling[i].life - dt' <= 0 => falling[i].id \notin Ids(falling')
                /\ \A j \in 1..Len(falling') :
                      falling'[j].id = falling[i].id
                         => falling'[j].life = falling[i].life - dt'
          /\ \A j \in 1..Len(falling') :
                /\ falling'[j].life > 0
                /\ falling'[j].id > spawned
                      => falling'[j].life = falling'[j].max_life - dt'
          /\ pc' = "loop" => Len(alphas') = Len(falling')
      ]_vars

C5_Witness ==
    /\ pc = "loop"
    /\ falling # <<>>
    /\ falling[1].id > 1
    /\ falling[1].life < falling[1].max_life - dt

(* C6: a frame resets a cloud's x to a negative value exactly when its     *)
(* advanced position exceeds screen_w plus the sprite width, and otherwise *)
(* keeps the advanced position; there are always CLOUD_COUNT clouds.       *)
C6_CloudWrap ==
    /\ [](pc \in {"loop", "finally"} => Len(clouds) = CLOUD_COUNT)
    /\ [][ Polled =>
             /\ Len(clouds') = CLOUD_COUNT
             /\ \A i \in 1..CLOUD_COUNT :
                   LET adv == clouds[i].x + clouds[i].speed * dt'
                   IN  IF adv > (screen_w + clouds[i].w) * Scale
                       THEN clouds'[i].x < 0
                       ELSE clouds'[i].x = adv
         ]_vars

C6_Witness ==
    /\ pc = "loop"
    /\ \E i \in 1..Len(clouds) : clouds[i].x < -(clouds[i].w * Scale)

(* C7: a frame spawns one particle when the accumulator plus the tick      *)
(* reaches the interval, subtracting the interval and drawing a new one    *)
(* that is at least the floor; otherwise it spawns none and keeps the      *)
(* interval.                                                               *)
C7_SpawnZeroOrOne ==
    [][ Polled =>
          LET acc == spawn_accum + dt'
          IN  IF acc >= spawn_interval
              THEN /\ spawned' = spawned + 1
                   /\ spawn_accum' = acc - spawn_interval
                   /\ spawn_interval' >= MinSpawnInterval
                   /\ Ids(falling') \subseteq Ids(falling) \cup {spawned + 1}
              ELSE /\ spawned' = spawned
                   /\ spawn_accum' = acc
                   /\ spawn_interval' = spawn_interval
                   /\ Ids(falling') \subseteq Ids(falling)
      ]_vars

C7_Witness ==
    /\ pc = "loop"
    /\ spawned = 1
    /\ frames = 2
    /\ spawn_interval = MinSpawnInterval

(* C8 as claimed: the alpha a particle is drawn with is 255 * life /       *)
(* max_life rounded to the nearest integer, clamped to [0, 255].           *)
C8_AlphaRounded ==
    pc = "loop" =>
        /\ Len(alphas) = Len(falling)
        /\ \A i \in 1..Len(falling) : alphas[i] = AlphaRounded(falling[i])

(* C8 as amended: the alpha is 255 * life / max_life truncated to an       *)
(* integer, clamped to [0, 255].                                           *)
C8_AlphaTruncated ==
    pc = "loop" =>
        /\ Len(alphas) = Len(falling)
        /\ \A i \in 1..Len(falling) :
              /\ alphas[i] \in 0..255
              /\ alphas[i] * falling[i].max_life <= 255 * falling[i].life
              /\ 255 * falling[i].life < (alphas[i] + 1) * falling[i].max_life

C8_Witness ==
    /\ pc = "loop"
    /\ \E i \in 1..Len(falling) :
          /\ i <= Len(alphas)
          /\ alphas[i] + 1 = RoundDiv(255 * falling[i].life, falling[i].max_life)

(* C9: no frame lowers the y of a particle that stays in the list.         *)
C9_OnlyFall ==
    [][ Polled =>
          \A i \in 1..Len(falling) : \A j \in 1..Len(falling') :
              falling'[j].id = falling[i].id => falling'[j].y >= falling[i].y
      ]_vars

C9_Witness ==
    /\ pc = "loop"
    /\ \E i \in 1..Len(falling) :
          /\ falling[i].life < falling[i].max_life - dt
          /\ falling[i].y > 0

(* C10: a run in which the loop body raised ends with the crash reported   *)
(* by the top-level handler and the exception re-raised.                   *)
C10_LoopFaultReported ==
    (pc = "terminated" /\ fault \in {"poll", "render"})
        => (reported /\ exit_code = 1)

====
